---- MODULE Spec2Model ----
(***************************************************************************)
(* Testing pipeline of the QMS application: TestRequest / TestResult,      *)
(* ProductSpecification.validate_value and the views that drive them.      *)
(***************************************************************************)
EXTENDS Integers, Sequences, FiniteSets, TLC

VARIABLES requests, results, specs, session, lastOp, inserted, handlers

vars == <<requests, results, specs, session, lastOp, inserted, handlers>>

-----------------------------------------------------------------------------
(* Bounds of the model *)

\* number of TestRequest rows that can be created
MaxTests == 1
\* depth of nested calls at which the interpreter raises RecursionError
RecursionLimit == 3

-----------------------------------------------------------------------------
(* Master data: users, products, parameters *)

NoRow == [none |-> TRUE]

Users == {"admin", "ctrl1", "ctrl2"}

\* User.role
role(u) == IF u = "admin" THEN "ADMIN" ELSE "CONTROLLER"

is_admin(u) == role(u) = "ADMIN"

is_controller(u) == role(u) = "CONTROLLER"

has_admin_access(u) == is_admin(u)

has_controller_access(u) == is_controller(u)

\* the decorator lets the view run for controllers and admins
controller_required(u) == has_controller_access(u) \/ has_admin_access(u)

\* RoleRequiredMixin.dispatch with required_roles = ['ADMIN', 'CONTROLLER']
RoleRequiredMixin(u) == role(u) \in {"ADMIN", "CONTROLLER"}

STATUS_CHOICES ==
    {"Pending", "In-Progress", "Submitted for Review", "Completed", "Approved", "Rejected"}

Tests == 1..MaxTests

Products == {"FG001"}

Parameters == {"Moisture", "Salmonella"}

\* TestParameter.data_type
data_type(p) ==
    IF p = "Moisture" THEN "Numeric" ELSE IF p = "Odor" THEN "Text" ELSE "Boolean"

-----------------------------------------------------------------------------
(* Strings are sequences of one-character strings; str.strip, str.lower    *)

WhiteSpace == {" "}

Digits == {"0", "1", "2", "3", "4", "5", "6", "7", "8", "9"}

DigitVal(c) ==
    CASE c = "0" -> 0 [] c = "1" -> 1 [] c = "2" -> 2 [] c = "3" -> 3 [] c = "4" -> 4
      [] c = "5" -> 5 [] c = "6" -> 6 [] c = "7" -> 7 [] c = "8" -> 8 [] c = "9" -> 9

LowerChar(c) ==
    CASE c = "N" -> "n" [] c = "P" -> "p" [] c = "T" -> "t" [] c = "Y" -> "y"
      [] c = "F" -> "f" [] OTHER -> c

\* a lower that leaves the case as it is
lower_nothing(s) == s

lower(s) == [i \in 1..Len(s) |-> LowerChar(s[i])]

RECURSIVE lstrip(_)
lstrip(s) == IF s # <<>> /\ Head(s) \in WhiteSpace THEN lstrip(Tail(s)) ELSE s

RECURSIVE rstrip(_)
rstrip(s) ==
    IF s # <<>> /\ s[Len(s)] \in WhiteSpace THEN rstrip(SubSeq(s, 1, Len(s) - 1)) ELSE s

\* a strip that trims the left side only
strip_left_only(s) == lstrip(s)

strip(s) == rstrip(lstrip(s))

RECURSIVE Pow10(_)
Pow10(k) == IF k = 0 THEN 1 ELSE 10 * Pow10(k - 1)

RECURSIVE DigitsValue(_)
DigitsValue(s) ==
    IF s = <<>> THEN 0 ELSE 10 * DigitsValue(SubSeq(s, 1, Len(s) - 1)) + DigitVal(s[Len(s)])

AllDigits(s) == \A i \in 1..Len(s) : s[i] \in Digits

\* a decimal is num * 10^(-exp)
Dec(n, e) == [num |-> n, exp |-> e]

\* a comparison that also holds for equal decimals
DecLe(a, b) == a.num * Pow10(b.exp) <= b.num * Pow10(a.exp)

DecLt(a, b) == a.num * Pow10(b.exp) < b.num * Pow10(a.exp)

\* the decimal that is not a number
NaN == [nan |-> TRUE]

\* Decimal(str(actual_value)): surrounding whitespace is ignored, then an
\* optional sign, then digits and an optional fraction, or "nan" in any case;
\* anything else raises decimal.InvalidOperation
Decimal(s) ==
    LET t == strip(s)
        signed == t # <<>> /\ Head(t) \in {"-", "+"}
        neg == t # <<>> /\ Head(t) = "-"
        u == IF signed THEN Tail(t) ELSE t
        dots == {i \in 1..Len(u) : u[i] = "."}
        ip == IF dots = {} THEN u ELSE SubSeq(u, 1, (CHOOSE i \in dots : TRUE) - 1)
        fp == IF dots = {} THEN <<>> ELSE SubSeq(u, (CHOOSE i \in dots : TRUE) + 1, Len(u))
        wellFormed == /\ Cardinality(dots) <= 1
                      /\ AllDigits(ip) /\ AllDigits(fp)
                      /\ Len(ip) + Len(fp) >= 1
        mag == DigitsValue(ip) * Pow10(Len(fp)) + DigitsValue(fp)
    IN  IF lower(u) = <<"n", "a", "n">>
        THEN [raised |-> "None", value |-> NaN]
        ELSE IF wellFormed
        THEN [raised |-> "None", value |-> Dec(IF neg THEN 0 - mag ELSE mag, Len(fp))]
        ELSE [raised |-> "InvalidOperation", value |-> Dec(0, 0)]

-----------------------------------------------------------------------------
(* ProductSpecification *)

None == [none |-> TRUE]

\* one ProductSpecification row (unique per product and parameter)
SpecRow(active, lo, hi, std) ==
    [is_active |-> active, min_value |-> lo, max_value |-> hi, standard_text_value |-> std]

TruthyTokens == {<<"t", "r", "u", "e">>, <<"y", "e", "s">>, <<"1">>, <<"p", "a", "s", "s">>}

\* exceptions the numeric branch handles
NumericHandled == {"ValueError", "TypeError"}

\* ProductSpecification.validate_value: (is_valid, error_message), or the
\* exception that leaves the method
validate_value(sp, dtype, actual_value) ==
    IF dtype = "Numeric" THEN
        LET d == Decimal(actual_value) IN
        IF d.raised # "None" THEN
            IF d.raised \in NumericHandled
            THEN [is_valid |-> FALSE, error_message |-> "Invalid numeric value", raised |-> "None"]
            ELSE [is_valid |-> FALSE, error_message |-> "None", raised |-> d.raised]
        ELSE IF d.value = NaN /\ (sp.min_value # None \/ sp.max_value # None) THEN
            \* an ordering comparison with NaN raises decimal.InvalidOperation
            IF "InvalidOperation" \in NumericHandled
            THEN [is_valid |-> FALSE, error_message |-> "Invalid numeric value", raised |-> "None"]
            ELSE [is_valid |-> FALSE, error_message |-> "None", raised |-> "InvalidOperation"]
        ELSE IF sp.min_value # None /\ DecLt(d.value, sp.min_value)
            THEN [is_valid |-> FALSE, error_message |-> "below minimum", raised |-> "None"]
        ELSE IF sp.max_value # None /\ DecLt(sp.max_value, d.value)
            THEN [is_valid |-> FALSE, error_message |-> "above maximum", raised |-> "None"]
        ELSE [is_valid |-> TRUE, error_message |-> "None", raised |-> "None"]
    ELSE IF dtype = "Text" THEN
        IF sp.standard_text_value # <<>>
           /\ lower(strip(actual_value)) # lower(strip(sp.standard_text_value))
        THEN [is_valid |-> FALSE, error_message |-> "does not match standard", raised |-> "None"]
        ELSE [is_valid |-> TRUE, error_message |-> "None", raised |-> "None"]
    ELSE IF dtype = "Boolean" THEN
        IF sp.standard_text_value # <<>>
           /\ (lower(strip(sp.standard_text_value)) \in TruthyTokens)
               # (lower(strip(actual_value)) \in TruthyTokens)
        THEN [is_valid |-> FALSE, error_message |-> "Boolean value mismatch", raised |-> "None"]
        ELSE [is_valid |-> TRUE, error_message |-> "None", raised |-> "None"]
    ELSE [is_valid |-> TRUE, error_message |-> "None", raised |-> "None"]

\* product.specifications.filter(parameter=..., is_active=True).first()
ActiveSpecification(sps, product, parameter) ==
    IF sps[product, parameter] # NoRow /\ sps[product, parameter].is_active
    THEN sps[product, parameter]
    ELSE NoRow

-----------------------------------------------------------------------------
(* TestResult *)

BoolStr(b) == IF b THEN "True" ELSE "False"

\* one TestResult row (unique per test request and parameter);
\* pass_fail_status is "True", "False" or "None"
ResultRow(value, pf, by) ==
    [actual_value |-> value, pass_fail_status |-> pf, tested_by |-> by]

\* Outcome of a call on a TestResult: obj is the instance afterwards, db the
\* row as last written, ret the value returned, raised the exception that
\* reaches the caller ("None" when the call returns).
Outcome(obj, db, ret, raised) == [obj |-> obj, db |-> db, ret |-> ret, raised |-> raised]

RECURSIVE TestResult_save(_, _, _, _, _)
RECURSIVE calculate_pass_fail(_, _, _, _, _)
RECURSIVE calculate_pass_fail_except(_, _, _, _, _)
RECURSIVE SavedInTry(_, _, _, _, _)
RECURSIVE Validated(_, _, _, _, _, _)

\* what save hands back once the evaluation c it started has ended
SaveAfterEvaluation(c) == Outcome(c.obj, c.db, "None", c.raised)

\* a save that writes the row and never evaluates
save_without_evaluation(obj, db, sp, dtype, d) == Outcome(obj, obj, "None", "None")

\* TestResult.save: obj is the instance, db the stored row, sp the active
\* specification of (product, parameter) or NoRow, d the depth of the call
TestResult_save(obj, db, sp, dtype, d) ==
    IF d > RecursionLimit THEN Outcome(obj, db, "None", "RecursionError")
    ELSE IF obj.pass_fail_status = "None" /\ obj.actual_value # <<>>
    THEN \* super().save() writes the row, then the evaluation runs
         SaveAfterEvaluation(calculate_pass_fail(obj, obj, sp, dtype, d + 1))
    ELSE Outcome(obj, obj, "None", "None")

\* the end of the except branch: return False unless its save s raised
ExceptAfterSave(s) == Outcome(s.obj, s.db, "False", s.raised)

\* the except Exception branch of calculate_pass_fail
calculate_pass_fail_except(obj, db, sp, dtype, d) ==
    ExceptAfterSave(
        TestResult_save([obj EXCEPT !.pass_fail_status = "None"], db, sp, dtype, d + 1))

\* a save s made inside the try block: an exception it raised is handled by
\* the except branch, otherwise ret is returned
SavedInTry(s, ret, sp, dtype, d) ==
    IF s.raised # "None"
    THEN calculate_pass_fail_except(s.obj, s.db, sp, dtype, d)
    ELSE Outcome(s.obj, s.db, ret, "None")

\* a try block that evaluates only a result whose status is not yet set
Validated_when_unset(v, obj, db, sp, dtype, d) ==
    IF obj.pass_fail_status # "None" THEN Outcome(obj, db, "False", "None")
    ELSE IF v.raised # "None"
    THEN calculate_pass_fail_except(obj, db, sp, dtype, d)
    ELSE SavedInTry(
            TestResult_save([obj EXCEPT !.pass_fail_status = BoolStr(v.is_valid)],
                            db, sp, dtype, d + 1),
            BoolStr(v.is_valid), sp, dtype, d)

\* the try block after validate_value answered v
Validated(v, obj, db, sp, dtype, d) ==
    IF v.raised # "None"
    THEN calculate_pass_fail_except(obj, db, sp, dtype, d)
    ELSE SavedInTry(
            TestResult_save([obj EXCEPT !.pass_fail_status = BoolStr(v.is_valid)],
                            db, sp, dtype, d + 1),
            BoolStr(v.is_valid), sp, dtype, d)

\* TestResult.calculate_pass_fail
calculate_pass_fail(obj, db, sp, dtype, d) ==
    IF d > RecursionLimit THEN Outcome(obj, db, "None", "RecursionError")
    ELSE IF sp = NoRow
    THEN SavedInTry(
            TestResult_save([obj EXCEPT !.pass_fail_status = "None"], db, sp, dtype, d + 1),
            "False", sp, dtype, d)
    ELSE Validated(validate_value(sp, dtype, obj.actual_value), obj, db, sp, dtype, d)

-----------------------------------------------------------------------------
(* TestRequest *)

RequestRow(status, step, owner, product) ==
    [status |-> status, current_step |-> step, controller_user |-> owner, product |-> product]

\* get_progress_percentage with the step-4 test ahead of the status test
get_progress_step_first(r) ==
    IF r.status = "Approved" \/ (r.status = "Completed" /\ r.current_step = 4) THEN 100
    ELSE IF r.current_step = 4 THEN 100
    ELSE IF r.status = "Submitted for Review" THEN 75
    ELSE (r.current_step * 100) \div 4

\* TestRequest.get_progress_percentage
get_progress_percentage(r) ==
    IF r.status = "Approved" \/ (r.status = "Completed" /\ r.current_step = 4) THEN 100
    ELSE IF r.status = "Submitted for Review" THEN 75
    ELSE IF r.current_step = 4 THEN 100
    ELSE (r.current_step * 100) \div 4

\* can_proceed_to_next_step without the test of current_step
can_proceed_ignoring_step(r) == r.status # "Rejected"

\* can_proceed_to_next_step without the test of the status
can_proceed_ignoring_rejected(r) == r.current_step < 4

\* TestRequest.can_proceed_to_next_step
can_proceed_to_next_step(r) ==
    IF r.status = "Rejected" THEN FALSE
    ELSE IF r.current_step >= 4 THEN FALSE
    ELSE TRUE

\* advance_step that leaves the status of a reviewed request alone
advance_step_keeping_status(r) ==
    IF can_proceed_to_next_step(r)
    THEN LET s == r.current_step + 1
         IN  [row |-> [r EXCEPT !.current_step = s,
                                !.status = IF r.status \in {"Pending", "In-Progress"}
                                           THEN (IF s = 4 THEN "Completed" ELSE "In-Progress")
                                           ELSE r.status],
              ret |-> TRUE]
    ELSE [row |-> r, ret |-> FALSE]

\* advance_step that increments the step and leaves the status alone
advance_step_only_step(r) ==
    IF can_proceed_to_next_step(r)
    THEN [row |-> [r EXCEPT !.current_step = r.current_step + 1], ret |-> TRUE]
    ELSE [row |-> r, ret |-> FALSE]

\* advance_step that goes two steps ahead, up to step 4
advance_step_skipping(r) ==
    IF can_proceed_to_next_step(r)
    THEN LET s == IF r.current_step + 2 > 4 THEN 4 ELSE r.current_step + 2
         IN  [row |-> [r EXCEPT !.current_step = s,
                                !.status = IF s = 4 THEN "Completed" ELSE "In-Progress"],
              ret |-> TRUE]
    ELSE [row |-> r, ret |-> FALSE]

\* TestRequest.advance_step: the row afterwards and the value returned
advance_step(r) ==
    IF can_proceed_to_next_step(r)
    THEN LET s == r.current_step + 1
         IN  [row |-> [r EXCEPT !.current_step = s,
                                !.status = IF s = 4 THEN "Completed" ELSE "In-Progress"],
              ret |-> TRUE]
    ELSE [row |-> r, ret |-> FALSE]

-----------------------------------------------------------------------------
(* State *)

\* requests[t]: the TestRequest row with id t, or NoRow
\* results[t, p]: the TestResult row of request t and parameter p, or NoRow
\* specs[product, p]: the ProductSpecification row, or NoRow
\* session[u][t]: request.session['test_<t>_params'] of user u's session
\* lastOp: the last operation, its inputs, its answer and the rows before it
\* inserted[t, p]: the number of TestResult rows inserted for request t and
\*   parameter p
\* handlers[h]: the request of user h that is being handled, or Idle

NEGATIVE == <<"N", "e", "g", "a", "t", "i", "v", "e">>

\* create_specifications, the 'FG' entry of specs_map: finished goods have a
\* Moisture specification and none for Salmonella
SeededSpecs ==
    [k \in Products \X Parameters |->
        IF k[2] = "Moisture" THEN SpecRow(TRUE, Dec(10, 0), Dec(12, 0), <<>>) ELSE NoRow]

\* The record of an operation: who asked for what, the answer (resp for a
\* view, ret / raised / pct for a method), whether it changed a TestRequest or
\* TestResult row, and for a method the row it was called on. A step-3
\* submission also records the values it processed (posted) and, in before,
\* the rows those parameters had. A handler that saves a TestRequest records
\* the instance it saved, the row stored just before the save and, at step 3, the parameters whose rows it had found.
Op(op, user, test, param, resp, ret, raised, pct, before) ==
    [op |-> op, user |-> user, test |-> test, param |-> param, resp |-> resp,
     ret |-> ret, raised |-> raised, pct |-> pct, before |-> before,
     changed |-> (requests' # requests \/ results' # results),
     posted |-> <<>>, value |-> <<>>, message |-> "None",
     instance |-> NoRow, stored |-> NoRow, seen |-> {}]

NoOp ==
    [op |-> "init", user |-> "None", test |-> 0, param |-> "None", resp |-> "None",
     ret |-> "None", raised |-> "None", pct |-> 0, before |-> NoRow, changed |-> FALSE,
     posted |-> <<>>, value |-> <<>>, message |-> "None",
     instance |-> NoRow, stored |-> NoRow, seen |-> {}]

\* a user's browser has one request under way at a time
Handlers == Users

\* no request is being handled
Idle == [pc |-> "idle"]

Init ==
    /\ requests = [t \in Tests |-> NoRow]
    /\ results = [k \in Tests \X Parameters |-> NoRow]
    /\ specs = SeededSpecs
    /\ session = [u \in Users |-> [t \in Tests |-> {}]]
    /\ lastOp = NoOp
    /\ inserted = [k \in Tests \X Parameters |-> IF results[k] = NoRow THEN 0 ELSE 1]
    /\ handlers = [h \in Handlers |-> Idle]

-----------------------------------------------------------------------------
(* Views of the testing pipeline *)

\* TestRequestForm.save(commit=False): the form has the fields batch_number,
\* supplier, product, sample_date and remarks, so the status, current_step and
\* controller_user keys of the POST (posted) are not read and the instance
\* has the model's defaults
TestRequestForm_save(product, posted) == RequestRow("Pending", 1, "None", product)

\* a registration that keeps the instance as the form built it
pipeline_start_unassigned(instance, u) == instance

\* the assignments of pipeline_start to the instance of the form
pipeline_start_assigned(instance, u) ==
    [instance EXCEPT !.controller_user = u, !.status = "Pending", !.current_step = 1]

\* Step 1, sample registration. valid: TestRequestForm.is_valid()
pipeline_start(u, method, valid, product, posted) ==
    /\ controller_required(u)
    /\ UNCHANGED <<results, specs, session, inserted, handlers>>
    /\ IF method = "POST" /\ valid
       THEN \E t \in Tests :
              /\ requests[t] = NoRow
              /\ \A t2 \in Tests : t2 < t => requests[t2] # NoRow
              /\ requests' = [requests EXCEPT ![t] =
                    pipeline_start_assigned(TestRequestForm_save(product, posted), u)]
              /\ lastOp' = [Op("pipeline_start", u, t, "None", "redirect_step2",
                               "None", "None", 0, NoRow) EXCEPT !.posted = posted]
       ELSE /\ requests' = requests
            /\ lastOp' = [Op("pipeline_start", u, 0, "None", "render", "None", "None", 0,
                             NoRow) EXCEPT !.posted = posted]

\* an ownership test that lets every controller pass
pipeline_step_any_controller(r, u) == is_controller(u) \/ is_admin(u)

\* the ownership test of pipeline_step: the owner and admins pass
pipeline_step_permitted(r, u) == ~(r.controller_user # u /\ ~is_admin(u))

\* a selection form that offers every parameter
AllParameters(sps, product) == Parameters

\* the queryset of TestParameterSelectionForm: parameters with an active
\* specification of the request's product
SelectableParameters(sps, product) ==
    {p \in Parameters : sps[product, p] # NoRow /\ sps[product, p].is_active}

\* a step-3 row whose save s is not followed by calculate_pass_fail
Step3_not_evaluated(s, sp, dtype) == s

\* the explicit calculate_pass_fail of a step-3 row after its save s
Step3Evaluated(s, sp, dtype) ==
    IF s.raised # "None" THEN s ELSE calculate_pass_fail(s.obj, s.db, sp, dtype, 1)

\* the row written and the exception raised, if any, by an outcome c
Step3Written(c) == [row |-> c.db, raised |-> c.raised]

\* get_or_create, save and calculate_pass_fail for one parameter of a step-3
\* submission: the row written and the exception raised, if any
Step3Row(existing, value, u, sp, dtype) ==
    Step3Written(
        Step3Evaluated(
            TestResult_save(IF existing = NoRow
                            THEN ResultRow(value, "None", u)
                            ELSE [existing EXCEPT !.actual_value = value, !.tested_by = u],
                            existing, sp, dtype, 1),
            sp, dtype))

\* the rows of a step-3 submission: post maps the submitted value_<p> keys to
\* their values
Step3Rows(r, t, params, post, u) ==
    [p \in params \cap DOMAIN post |->
        Step3Row(results[t, p], post[p], u,
                 ActiveSpecification(specs, r.product, p), data_type(p))]

\* the end of a step-3 POST whose loop computed rows, the parameters failed
\* raising
Step3Finished(u, t, rows, post, failed) ==
    IF failed # {}
    THEN \* the exception leaves transaction.atomic: rolled back
         /\ UNCHANGED <<requests, results, session, inserted>>
         /\ lastOp' = [Op("pipeline_step", u, t, "None", "server_error", "None",
                          rows[CHOOSE p \in failed : TRUE].raised, 0,
                          [p \in DOMAIN rows |-> results[t, p]])
                         EXCEPT !.posted = [p \in DOMAIN rows |-> post[p]]]
    ELSE /\ results' = [k \in Tests \X Parameters |->
                          IF k[1] = t /\ k[2] \in DOMAIN rows
                          THEN rows[k[2]].row ELSE results[k]]
         /\ inserted' = [k \in Tests \X Parameters |->
                           IF k[1] = t /\ k[2] \in DOMAIN rows /\ results[k] = NoRow
                           THEN inserted[k] + 1 ELSE inserted[k]]
         /\ requests' = [requests EXCEPT ![t].current_step = 3]
         /\ session' = session
         /\ lastOp' = [Op("pipeline_step", u, t, "None", "redirect_step4", "None", "None", 0,
                          [p \in DOMAIN rows |-> results[t, p]])
                         EXCEPT !.posted = [p \in DOMAIN rows |-> post[p]]]

\* a step-3 POST whose loop over the parameters computed rows
Step3Posted(u, t, rows, post) ==
    Step3Finished(u, t, rows, post, {p \in DOMAIN rows : rows[p].raised # "None"})

\* Steps 2-4 of the pipeline. sel: the parameters ticked at step 2; post: the
\* values submitted at step 3; action: the action field at step 4
pipeline_step(u, t, step, method, sel, post, action) ==
    /\ controller_required(u)
    /\ UNCHANGED <<specs, handlers>>
    /\ LET r == requests[t]
           answer(resp) == Op("pipeline_step", u, t, "None", resp, "None", "None", 0, NoRow)
           same == UNCHANGED <<requests, results, session, inserted>>
       IN
       IF r = NoRow THEN
            same /\ lastOp' = answer("404")
       ELSE IF ~pipeline_step_permitted(r, u) THEN
            same /\ lastOp' = answer("permission_error")
       ELSE IF step = 2 THEN
            IF method = "POST" /\ sel # {} /\ sel \subseteq SelectableParameters(specs, r.product)
            THEN /\ session' = [session EXCEPT ![u][t] = sel]
                 /\ requests' = [requests EXCEPT ![t].current_step = 2,
                                                 ![t].status = "In-Progress"]
                 /\ UNCHANGED <<results, inserted>>
                 /\ lastOp' = answer("redirect_step3")
            ELSE same /\ lastOp' = answer("render")
       ELSE IF step = 3 THEN
            IF session[u][t] = {} THEN
                same /\ lastOp' = answer("redirect_step2")
            ELSE IF method = "POST" THEN
                Step3Posted(u, t, Step3Rows(r, t, session[u][t], post, u), post)
            ELSE same /\ lastOp' = answer("render")
       ELSE IF step = 4 THEN
            IF method = "POST" /\ action = "submit" THEN
                /\ requests' = [requests EXCEPT ![t].current_step = 4,
                                                ![t].status = "Submitted for Review"]
                /\ UNCHANGED <<results, session, inserted>>
                /\ lastOp' = answer("redirect_detail")
            ELSE IF method = "POST" /\ action = "approve" THEN
                /\ requests' = [requests EXCEPT ![t].current_step = 4,
                                                ![t].status = "Approved"]
                /\ UNCHANGED <<results, session, inserted>>
                /\ lastOp' = answer("redirect_detail")
            ELSE IF method = "POST" /\ action = "reject" THEN
                /\ requests' = [requests EXCEPT ![t].status = "Rejected"]
                /\ UNCHANGED <<results, session, inserted>>
                /\ lastOp' = answer("redirect_detail")
            ELSE same /\ lastOp' = answer("render")
       ELSE same /\ lastOp' = answer("invalid_step")

\* TestRequestDetailView.get_queryset: the rows the user may see
DetailQueryset(u) ==
    IF is_admin(u)
    THEN {t \in Tests : requests[t] # NoRow}
    ELSE {t \in Tests : requests[t] # NoRow /\ requests[t].controller_user = u}

\* TestRequestDetailView.post
TestRequestDetailView_post(u, t, action) ==
    /\ RoleRequiredMixin(u)
    /\ UNCHANGED <<results, specs, session, inserted, handlers>>
    /\ LET answer(resp) == Op("detail_post", u, t, "None", resp, "None", "None", 0, NoRow)
       IN
       IF t \notin DetailQueryset(u) THEN
            requests' = requests /\ lastOp' = answer("404")
       ELSE IF ~is_admin(u) THEN
            requests' = requests /\ lastOp' = answer("permission_error")
       ELSE IF requests[t].status = "Submitted for Review" THEN
            IF action = "approve" THEN
                /\ requests' = [requests EXCEPT ![t].status = "Approved"]
                /\ lastOp' = answer("approved")
            ELSE IF action = "reject" THEN
                /\ requests' = [requests EXCEPT ![t].status = "Rejected"]
                /\ lastOp' = answer("rejected")
            ELSE requests' = requests /\ lastOp' = answer("invalid_action")
       ELSE requests' = requests /\ lastOp' = answer("redirect_detail")

\* SpecificationDeleteView.delete: BaseModel.soft_delete of the row
SpecificationDelete(u, product, p) ==
    /\ has_admin_access(u)
    /\ specs[product, p] # NoRow
    /\ specs[product, p].is_active
    /\ specs' = [specs EXCEPT ![product, p].is_active = FALSE]
    /\ UNCHANGED <<requests, results, session, inserted, handlers>>
    /\ lastOp' = Op("specification_delete", u, 0, "None", "redirect", "None", "None", 0, NoRow)

\* the record of a specification view's answer
SpecificationAnswer(op, u) == Op(op, u, 0, "None", "redirect", "None", "None", 0, NoRow)

\* SpecificationCreateView: a valid ProductSpecificationForm creates the row
\* of (product, p), which unique_together allows once; its fields are those
\* of the form and is_active has its default
SpecificationCreate(u, product, p, fields) ==
    /\ has_admin_access(u)
    /\ specs[product, p] = NoRow
    /\ specs' = [specs EXCEPT ![product, p] =
                    SpecRow(TRUE, fields.min_value, fields.max_value,
                            fields.standard_text_value)]
    /\ UNCHANGED <<requests, results, session, inserted, handlers>>
    /\ lastOp' = SpecificationAnswer("specification_create", u)

\* an update that also clears the pass_fail_status of the results of the
\* parameter
SpecificationUpdate_resetting(u, product, p, fields) ==
    /\ has_admin_access(u)
    /\ specs[product, p] # NoRow
    /\ specs' = [specs EXCEPT ![product, p] =
                    SpecRow(specs[product, p].is_active, fields.min_value,
                            fields.max_value, fields.standard_text_value)]
    /\ results' = [k \in Tests \X Parameters |->
                      IF k[2] = p /\ results[k] # NoRow
                      THEN [results[k] EXCEPT !.pass_fail_status = "None"]
                      ELSE results[k]]
    /\ UNCHANGED <<requests, session, inserted, handlers>>
    /\ lastOp' = SpecificationAnswer("specification_update", u)

\* SpecificationUpdateView: a valid ProductSpecificationForm replaces the
\* fields of the row of (product, p), active or soft-deleted; is_active is
\* not a field of the form
SpecificationUpdate(u, product, p, fields) ==
    /\ has_admin_access(u)
    /\ specs[product, p] # NoRow
    /\ specs' = [specs EXCEPT ![product, p] =
                    SpecRow(specs[product, p].is_active, fields.min_value,
                            fields.max_value, fields.standard_text_value)]
    /\ UNCHANGED <<requests, results, session, inserted, handlers>>
    /\ lastOp' = SpecificationAnswer("specification_update", u)

-----------------------------------------------------------------------------
(* Model methods called on a stored row *)

\* t.advance_step() on the stored TestRequest t
AdvanceStep(t) ==
    /\ requests[t] # NoRow
    /\ UNCHANGED <<results, specs, session, inserted, handlers>>
    /\ LET a == advance_step(requests[t]) IN
        /\ requests' = [requests EXCEPT ![t] = a.row]
        /\ lastOp' = Op("advance_step", "None", t, "None", "None", BoolStr(a.ret), "None", 0,
                        requests[t])

\* t.get_progress_percentage() on the stored TestRequest t
GetProgressPercentage(t) ==
    /\ requests[t] # NoRow
    /\ UNCHANGED <<requests, results, specs, session, inserted, handlers>>
    /\ lastOp' = Op("get_progress_percentage", "None", t, "None", "None", "None", "None",
                    get_progress_percentage(requests[t]), requests[t])

\* the record of a calculate_pass_fail call with outcome c
Evaluated(c, t, p) ==
    Op("calculate_pass_fail", "None", t, p, "None",
       IF c.raised # "None" THEN "None" ELSE c.ret, c.raised, 0, results[t, p])

\* the stored row and the record of the call after the outcome c
CalculatePassFailDone(c, t, p) ==
    /\ results' = [results EXCEPT ![t, p] = c.db]
    /\ lastOp' = Evaluated(c, t, p)

\* r.calculate_pass_fail() on the stored TestResult of (t, p), outside a
\* transaction: every save is committed as it happens
CalculatePassFail(t, p) ==
    /\ requests[t] # NoRow
    /\ results[t, p] # NoRow
    /\ UNCHANGED <<requests, specs, session, inserted, handlers>>
    /\ CalculatePassFailDone(
          calculate_pass_fail(results[t, p], results[t, p],
                              ActiveSpecification(specs, requests[t].product, p),
                              data_type(p), 1),
          t, p)

\* the stored row and the record of a save with outcome c
TestResultSaved(c, t, p) ==
    /\ results' = [results EXCEPT ![t, p] = c.db]
    /\ lastOp' = Op("save", "None", t, p, "None", "None", c.raised, 0, results[t, p])

\* r.save() on the stored TestResult of (t, p), outside a transaction
TestResultSave(t, p) ==
    /\ requests[t] # NoRow
    /\ results[t, p] # NoRow
    /\ UNCHANGED <<requests, specs, session, inserted, handlers>>
    /\ TestResultSaved(
          TestResult_save(results[t, p], results[t, p],
                          ActiveSpecification(specs, requests[t].product, p),
                          data_type(p), 1),
          t, p)

-----------------------------------------------------------------------------
(* Inputs *)

V_11_0 == <<"1", "1", ".", "0">>

V_9 == <<"9">>

V_abc == <<"a", "b", "c">>

PASS == <<"P", "a", "s", "s">>

Methods == {"GET", "POST"}

\* the URL accepts any integer step
URLSteps == {1, 2, 3, 4, 5}

\* the choices of TestReviewForm.action, and a value outside them
Actions == {"submit", "approve", "reject", "other"}

\* values typed into the step-3 form
PostValues == {V_11_0, V_9, V_abc, <<>>}

Posts == UNION {[S -> PostValues] : S \in SUBSET Parameters}

NoPost == <<>>

-----------------------------------------------------------------------------
(* The application: requests handled one at a time *)

\* what a registration POST carries besides the fields of the form: nothing,
\* or a forged status, current_step and controller_user
PostedState ==
    {[status |-> "None", current_step |-> 0, controller_user |-> "None"],
     [status |-> "Approved", current_step |-> 4, controller_user |-> "admin"]}

PipelineStart ==
    \E u \in Users, method \in Methods, valid \in BOOLEAN, product \in Products,
       posted \in PostedState :
        pipeline_start(u, method, valid, product, posted)

PipelineStep2 ==
    \E u \in Users, t \in Tests, method \in Methods, sel \in SUBSET Parameters :
        pipeline_step(u, t, 2, method, sel, NoPost, "None")

PipelineStep3 ==
    \E u \in Users, t \in Tests, method \in Methods, post \in Posts :
        pipeline_step(u, t, 3, method, {}, post, "None")

PipelineStep4 ==
    \E u \in Users, t \in Tests, method \in Methods, action \in Actions :
        pipeline_step(u, t, 4, method, {}, NoPost, action)

PipelineStepInvalid ==
    \E u \in Users, t \in Tests, method \in Methods, step \in URLSteps \ {2, 3, 4} :
        pipeline_step(u, t, step, method, {}, NoPost, "None")

DetailPost ==
    \E u \in Users, t \in Tests, action \in Actions : TestRequestDetailView_post(u, t, action)

SpecDelete ==
    \E u \in Users, product \in Products, p \in Parameters : SpecificationDelete(u, product, p)

\* what an admin enters in ProductSpecificationForm for parameter p: for a
\* Numeric parameter the seeded bounds 10 and 12 or the bounds 12 and 12, for
\* a Boolean one the standard value Negative
SpecificationFields(p) ==
    IF data_type(p) = "Numeric"
    THEN {[min_value |-> Dec(lo, 0), max_value |-> Dec(12, 0), standard_text_value |-> <<>>] :
             lo \in {10, 12}}
    ELSE {[min_value |-> None, max_value |-> None, standard_text_value |-> NEGATIVE]}

SpecCreate ==
    \E u \in Users, product \in Products, p \in Parameters :
        \E fields \in SpecificationFields(p) : SpecificationCreate(u, product, p, fields)

SpecUpdate ==
    \E u \in Users, product \in Products, p \in Parameters :
        \E fields \in SpecificationFields(p) : SpecificationUpdate(u, product, p, fields)

Advance == \E t \in Tests : AdvanceStep(t)

Progress == \E t \in Tests : GetProgressPercentage(t)

Evaluate == \E t \in Tests, p \in Parameters : CalculatePassFail(t, p)

Save == \E t \in Tests, p \in Parameters : TestResultSave(t, p)

Next ==
    \/ PipelineStart
    \/ PipelineStep2
    \/ PipelineStep3
    \/ PipelineStep4
    \/ PipelineStepInvalid
    \/ DetailPost
    \/ SpecDelete
    \/ Advance

Spec == Init /\ [][Next]_vars

-----------------------------------------------------------------------------
(* The model methods applied to every stored row *)

FnValues == {V_11_0, V_9, V_abc, <<>>, NEGATIVE, PASS}

FnUser == "ctrl1"

\* the specifications an admin can have set up for the product: the seeded
\* Moisture row, active or soft-deleted, and a Salmonella row, absent, active
\* or soft-deleted
FnSpecs ==
    {[k \in Products \X Parameters |->
        IF k[2] = "Moisture"
        THEN SpecRow(m, Dec(10, 0), Dec(12, 0), <<>>)
        ELSE IF b = "absent" THEN NoRow ELSE SpecRow(b = "active", None, None, NEGATIVE)] :
        m \in BOOLEAN, b \in {"absent", "active", "deleted"}}

FnResultRows ==
    {NoRow} \cup {ResultRow(v, pf, FnUser) : v \in FnValues, pf \in {"None", "True", "False"}}

InitFn ==
    /\ requests \in [Tests -> {RequestRow(st, k, FnUser, pr) :
                                 st \in STATUS_CHOICES, k \in 1..4, pr \in Products}]
    /\ results \in [Tests \X Parameters -> FnResultRows]
    /\ specs \in FnSpecs
    /\ session = [u \in Users |-> [t \in Tests |-> {}]]
    /\ lastOp = NoOp
    /\ inserted = [k \in Tests \X Parameters |-> IF results[k] = NoRow THEN 0 ELSE 1]
    /\ handlers = [h \in Handlers |-> Idle]

NextFn ==
    \/ Advance
    \/ Progress
    \/ Evaluate
    \/ Save
    \/ SpecCreate
    \/ SpecUpdate
    \/ SpecDelete

SpecFn == InitFn /\ [][NextFn]_vars

-----------------------------------------------------------------------------
(* validate_value applied to the specifications of every data type *)

\* the seeded parameters of the three data types
ValParameters == Parameters \cup {"Odor"}

V_10 == <<"1", "0">>

V_12 == <<"1", "2">>

V_13 == <<"1", "3">>

V_NaN == <<"N", "a", "N">>

V_negative == <<"n", "e", "g", "a", "t", "i", "v", "e">>

V_Negative_padded == <<" ", "N", "e", "g", "a", "t", "i", "v", "e", " ">>

POSITIVE == <<"P", "o", "s", "i", "t", "i", "v", "e">>

YES == <<"Y", "e", "s">>

ValValues ==
    {V_9, V_10, V_11_0, V_12, V_13, V_abc, <<>>, V_NaN,
     NEGATIVE, V_negative, V_Negative_padded, POSITIVE, PASS, YES}

\* the specifications an admin can set up: numeric bounds present or absent,
\* a standard text value present or absent
ValSpecs ==
    {[k \in Products \X ValParameters |->
        IF data_type(k[2]) = "Numeric" THEN SpecRow(TRUE, lo, hi, <<>>)
        ELSE IF data_type(k[2]) = "Text" THEN SpecRow(TRUE, None, None, txt)
        ELSE SpecRow(TRUE, None, None, std)] :
        lo \in {None, Dec(10, 0)}, hi \in {None, Dec(12, 0)},
        txt \in {<<>>, NEGATIVE}, std \in {<<>>, NEGATIVE, PASS}}

InitVal ==
    /\ requests = [t \in Tests |-> NoRow]
    /\ results = [k \in Tests \X Parameters |-> NoRow]
    /\ specs \in ValSpecs
    /\ session = [u \in Users |-> [t \in Tests |-> {}]]
    /\ lastOp = NoOp
    /\ inserted = [k \in Tests \X Parameters |-> IF results[k] = NoRow THEN 0 ELSE 1]
    /\ handlers = [h \in Handlers |-> Idle]

\* specification.validate_value(value) on the stored ProductSpecification
ValidateValue(product, p, value) ==
    /\ specs[product, p] # NoRow
    /\ UNCHANGED <<requests, results, specs, session, inserted, handlers>>
    /\ LET v == validate_value(specs[product, p], data_type(p), value)
       IN  lastOp' = [Op("validate_value", "None", 0, p, "None",
                         IF v.raised # "None" THEN "None" ELSE BoolStr(v.is_valid),
                         v.raised, 0, specs[product, p])
                        EXCEPT !.value = value, !.message = v.error_message]

Validate ==
    \E product \in Products, p \in ValParameters, value \in ValValues :
        ValidateValue(product, p, value)

NextVal == Validate

SpecVal == InitVal /\ [][NextVal]_vars

-----------------------------------------------------------------------------
(* Request handlers running at the same time: a handler loads the          *)
(* TestRequest, and later writes what it decided on the instance it loaded *)

\* TestParameter.Meta.ordering = ['name']: the place of a parameter in the
\* loop of step 3
ParameterOrder(p) == IF p = "Moisture" THEN 1 ELSE 2

\* an INSERT that no constraint restricts
insert_unconstrained(existing) == TRUE

\* unique_together (test_request, parameter): the INSERT of get_or_create
\* succeeds only when the pair has no row; otherwise IntegrityError makes
\* get_or_create fetch the row that is there
insert_permitted(existing) == existing = NoRow

\* a save that writes only the fields the handler assigned
save_assigned_fields(instance, loaded, stored) ==
    [f \in DOMAIN instance |-> IF instance[f] # loaded[f] THEN instance[f] ELSE stored[f]]

\* test_request.save(): every field of the instance is written over the
\* stored row
TestRequest_save(instance, loaded, stored) == instance

\* the rows written ahead of the first failure, were they committed one by one
written_before_failure(params, failed) ==
    {p \in params : \A f \in failed : ParameterOrder(p) < ParameterOrder(f)}

\* with transaction.atomic(): the rows that remain of a submission in which
\* the parameters failed raised
transaction_atomic(params, failed) == {}

\* a handler between its load and its write
Loaded(view, u, t, step, action, sel, post, instance, params, seen) ==
    [pc |-> "loaded", view |-> view, user |-> u, test |-> t, step |-> step,
     action |-> action, sel |-> sel, post |-> post, instance |-> instance,
     params |-> params, seen |-> seen]

\* the handler has loaded its rows: nothing is answered yet
Loading(u, t) == Op("load", u, t, "None", "None", "None", "None", 0, NoRow)

\* pipeline_step up to the point where it starts to write (POST requests)
pipeline_step_load(h, u, t, step, sel, post, action) ==
    /\ handlers[h] = Idle
    /\ controller_required(u)
    /\ UNCHANGED <<requests, results, specs, session, inserted>>
    /\ LET r == requests[t]
           answer(resp) == Op("pipeline_step", u, t, "None", resp, "None", "None", 0, NoRow)
           go == handlers' = [handlers EXCEPT ![h] =
                    Loaded("pipeline_step", u, t, step, action, sel, post, r, session[u][t],
                           {p \in Parameters : results[t, p] # NoRow})]
       IN
       IF r = NoRow THEN
            handlers' = handlers /\ lastOp' = answer("404")
       ELSE IF ~pipeline_step_permitted(r, u) THEN
            handlers' = handlers /\ lastOp' = answer("permission_error")
       ELSE IF step = 2 THEN
            IF sel # {} /\ sel \subseteq SelectableParameters(specs, r.product)
            THEN go /\ lastOp' = Loading(u, t)
            ELSE handlers' = handlers /\ lastOp' = answer("render")
       ELSE IF step = 3 THEN
            IF session[u][t] = {}
            THEN handlers' = handlers /\ lastOp' = answer("redirect_step2")
            ELSE go /\ lastOp' = Loading(u, t)
       ELSE IF step = 4 THEN
            IF action \in {"submit", "approve", "reject"}
            THEN go /\ lastOp' = Loading(u, t)
            ELSE handlers' = handlers /\ lastOp' = answer("render")
       ELSE handlers' = handlers /\ lastOp' = answer("invalid_step")

\* the rows of a step-3 submission of the handler c: a parameter whose row
\* get_or_create did not find is inserted if the constraint permits
Step3Created(c) ==
    {p \in c.params \cap DOMAIN c.post :
        p \notin c.seen /\ insert_permitted(results[c.test, p])}

Step3RowsOf(c) ==
    [p \in c.params \cap DOMAIN c.post |->
        Step3Row(IF p \in Step3Created(c) THEN NoRow ELSE results[c.test, p],
                 c.post[p], c.user,
                 ActiveSpecification(specs, c.instance.product, p), data_type(p))]

\* the record of a handler c that saved the instance inst
Saved(c, resp, inst) ==
    [Op("pipeline_step", c.user, c.test, "None", resp, "None", "None", 0, NoRow)
        EXCEPT !.instance = inst, !.stored = requests[c.test]]

\* what a step-3 submission of the handler c leaves behind: rows are its rows,
\* created those it inserted, failed the parameters that raised and kept the
\* parameters whose rows remain
Step3Stored(c, rows, created, failed, kept, inst) ==
    /\ results' = [k \in Tests \X Parameters |->
                     IF k[1] = c.test /\ k[2] \in kept THEN rows[k[2]].row ELSE results[k]]
    /\ inserted' = [k \in Tests \X Parameters |->
                      IF k[1] = c.test /\ k[2] \in kept \cap created
                      THEN inserted[k] + 1 ELSE inserted[k]]
    /\ session' = session
    /\ IF failed # {}
       THEN /\ requests' = requests
            /\ lastOp' =
                 [Op("pipeline_step", c.user, c.test, "None", "server_error", "None",
                     rows[CHOOSE p \in failed : TRUE].raised, 0,
                     [p \in DOMAIN rows |-> results[c.test, p]])
                     EXCEPT !.posted = [p \in DOMAIN rows |-> c.post[p]], !.seen = c.seen]
       ELSE /\ requests' = [requests EXCEPT ![c.test] =
                               TestRequest_save(inst, c.instance, requests[c.test])]
            /\ lastOp' = [Saved(c, "redirect_step4", inst) EXCEPT
                             !.posted = [p \in DOMAIN rows |-> c.post[p]],
                             !.before = [p \in DOMAIN rows |-> results[c.test, p]],
                             !.seen = c.seen]

\* the step-3 loop has ended with the parameters failed raising: the
\* transaction commits, or rolls back
Step3Ended(c, rows, created, failed) ==
    Step3Stored(c, rows, created, failed,
                IF failed = {} THEN DOMAIN rows ELSE transaction_atomic(DOMAIN rows, failed),
                [c.instance EXCEPT !.current_step = 3])

\* the step-3 loop of the handler c has computed rows
Step3Looped(c, rows, created) ==
    Step3Ended(c, rows, created, {p \in DOMAIN rows : rows[p].raised # "None"})

\* a handler c that assigned the instance inst saves it
RequestSaved(c, resp, inst) ==
    /\ requests' = [requests EXCEPT ![c.test] =
                       TestRequest_save(inst, c.instance, requests[c.test])]
    /\ lastOp' = Saved(c, resp, inst)

\* the write of the handler c of pipeline_step
pipeline_step_written(c) ==
    IF c.step = 2 THEN
        /\ session' = [session EXCEPT ![c.user][c.test] = c.sel]
        /\ UNCHANGED <<results, inserted>>
        /\ RequestSaved(c, "redirect_step3",
                        [c.instance EXCEPT !.current_step = 2, !.status = "In-Progress"])
    ELSE IF c.step = 3 THEN
        Step3Looped(c, Step3RowsOf(c), Step3Created(c))
    ELSE \* step 4
        /\ UNCHANGED <<results, session, inserted>>
        /\ RequestSaved(c, "redirect_detail",
                 IF c.action = "submit"
                 THEN [c.instance EXCEPT !.current_step = 4, !.status = "Submitted for Review"]
                 ELSE IF c.action = "approve"
                 THEN [c.instance EXCEPT !.current_step = 4, !.status = "Approved"]
                 ELSE [c.instance EXCEPT !.status = "Rejected"])

\* pipeline_step from the point where it writes
pipeline_step_write(h) ==
    /\ handlers[h].pc = "loaded"
    /\ handlers[h].view = "pipeline_step"
    /\ handlers' = [handlers EXCEPT ![h] = Idle]
    /\ UNCHANGED specs
    /\ pipeline_step_written(handlers[h])

\* TestRequestDetailView.post up to the point where it starts to write
TestRequestDetailView_post_load(h, u, t, action) ==
    /\ handlers[h] = Idle
    /\ RoleRequiredMixin(u)
    /\ UNCHANGED <<requests, results, specs, session, inserted>>
    /\ LET answer(resp) == Op("detail_post", u, t, "None", resp, "None", "None", 0, NoRow)
       IN
       IF t \notin DetailQueryset(u) THEN
            handlers' = handlers /\ lastOp' = answer("404")
       ELSE IF ~is_admin(u) THEN
            handlers' = handlers /\ lastOp' = answer("permission_error")
       ELSE IF requests[t].status = "Submitted for Review" THEN
            IF action \in {"approve", "reject"}
            THEN /\ handlers' = [handlers EXCEPT ![h] =
                        Loaded("detail_post", u, t, 0, action, {}, <<>>, requests[t], {}, {})]
                 /\ lastOp' = Loading(u, t)
            ELSE handlers' = handlers /\ lastOp' = answer("invalid_action")
       ELSE handlers' = handlers /\ lastOp' = answer("redirect_detail")

\* TestRequestDetailView.post from the point where it writes
TestRequestDetailView_post_write(h) ==
    /\ handlers[h].pc = "loaded"
    /\ handlers[h].view = "detail_post"
    /\ handlers' = [handlers EXCEPT ![h] = Idle]
    /\ UNCHANGED <<results, specs, session, inserted>>
    /\ LET c == handlers[h]
           inst == [c.instance EXCEPT
                      !.status = IF c.action = "approve" THEN "Approved" ELSE "Rejected"]
       IN  /\ requests' = [requests EXCEPT ![c.test] =
                              TestRequest_save(inst, c.instance, requests[c.test])]
           /\ lastOp' = [Op("detail_post", c.user, c.test, "None",
                            IF c.action = "approve" THEN "approved" ELSE "rejected",
                            "None", "None", 0, NoRow)
                           EXCEPT !.instance = inst, !.stored = requests[c.test]]

\* the users whose requests run at the same time
TxUsers == {"admin", "ctrl1"}

\* the values posted at step 3
TxPosts ==
    {post \in Posts : /\ "Moisture" \in DOMAIN post
                      /\ post["Moisture"] \in {V_11_0, V_9}
                      /\ "Salmonella" \in DOMAIN post => post["Salmonella"] = V_9}

\* the actions posted at step 4
TxActions == {"submit", "other"}

\* a request of ctrl1 after step 2, or submitted for review; ctrl1 selected
\* both parameters and the admin Moisture; the Salmonella specification may since
\* have been soft-deleted
InitTx ==
    /\ requests \in [Tests -> {RequestRow("In-Progress", 2, "ctrl1", pr) : pr \in Products}
                               \cup {RequestRow("Submitted for Review", 4, "ctrl1", pr) :
                                        pr \in Products}]
    /\ results = [k \in Tests \X Parameters |-> NoRow]
    /\ specs \in {f \in FnSpecs : \A pr \in Products :
                        f[pr, "Moisture"].is_active /\ f[pr, "Salmonella"] # NoRow}
    /\ session = [u \in Users |-> [t \in Tests |->
                     IF u = "ctrl1" THEN Parameters
                     ELSE IF u = "admin" THEN {"Moisture"} ELSE {}]]
    /\ lastOp = NoOp
    /\ inserted = [k \in Tests \X Parameters |-> 0]
    /\ handlers = [h \in Handlers |-> Idle]

StepLoad ==
    \E u \in TxUsers, t \in Tests, step \in {2, 3, 4} :
        \/ step = 2 /\ pipeline_step_load(u, u, t, 2, {"Moisture"}, NoPost, "None")
        \/ step = 3 /\ \E post \in TxPosts : pipeline_step_load(u, u, t, 3, {}, post, "None")
        \/ step = 4 /\ \E action \in TxActions :
                          pipeline_step_load(u, u, t, 4, {}, NoPost, action)

StepWrite == \E h \in Handlers : pipeline_step_write(h)

DetailLoad ==
    \E u \in TxUsers, t \in Tests, action \in Actions :
        TestRequestDetailView_post_load(u, u, t, action)

DetailWrite == \E h \in Handlers : TestRequestDetailView_post_write(h)

NextTx ==
    \/ StepLoad
    \/ StepWrite
    \/ DetailLoad
    \/ DetailWrite

SpecTx == InitTx /\ [][NextTx]_vars

-----------------------------------------------------------------------------
(* Properties of the pipeline state machine *)

Stored == {t \in Tests : requests[t] # NoRow}

\* C1: once a TestRequest's status is Approved or Rejected, no operation
\* (pipeline_step, advance_step, detail-view POST) changes its status.
C1_TerminalStatusIsKept ==
    [][\A t \in Stored :
          requests[t].status \in {"Approved", "Rejected"}
              => requests'[t].status = requests[t].status]_vars

\* C2: every step that sets a TestRequest's status to Approved is performed
\* by a user whose role is ADMIN.
C2_OnlyAdminApproves ==
    [][\A t \in Stored :
          (requests'[t].status = "Approved" /\ requests[t].status # "Approved")
              => (lastOp'.user \in Users /\ role(lastOp'.user) = "ADMIN")]_vars

\* the evaluation of the stored result (t, p) is ambiguous: there is no active
\* specification, or validating the value throws
EvaluationAmbiguous(t, p) ==
    LET sp == ActiveSpecification(specs, requests[t].product, p)
    IN  \/ sp = NoRow
        \/ validate_value(sp, data_type(p), results[t, p].actual_value).raised # "None"

\* C3: calculate_pass_fail on a result whose evaluation is ambiguous (no
\* active specification, or the evaluation throws) completes with the stored
\* pass_fail_status unknown and the return value False, and raises nothing.
C3_AmbiguityNeverRaises ==
    (lastOp.op = "calculate_pass_fail" /\ EvaluationAmbiguous(lastOp.test, lastOp.param))
        => /\ lastOp.raised = "None"
           /\ lastOp.ret = "False"
           /\ results[lastOp.test, lastOp.param].pass_fail_status = "None"

\* C4: a TestRequest whose status is Submitted for Review, Completed or
\* Approved has current_step = 4.
C4_ReviewedStatusAtStep4 ==
    \A t \in Stored :
        requests[t].status \in {"Submitted for Review", "Completed", "Approved"}
            => requests[t].current_step = 4

\* C5: 1 <= current_step <= 4 for every TestRequest in every reachable state.
C5_StepInRange ==
    \A t \in Stored : requests[t].current_step >= 1 /\ requests[t].current_step <= 4

\* a request at step 4 on which advance_step was tried
C5_Witness ==
    /\ lastOp.op = "advance_step"
    /\ lastOp.before.current_step = 4
    /\ requests[lastOp.test].current_step = 4

\* C6: advance_step on a request that is Rejected (at any step) or at step 4
\* or more (with any status) finds can_proceed_to_next_step False, returns
\* False and leaves current_step and status as they were.
C6_BlockedAdvanceIsNoOp ==
    (/\ lastOp.op = "advance_step"
     /\ (lastOp.before.status = "Rejected" \/ lastOp.before.current_step >= 4))
        => /\ ~can_proceed_to_next_step(lastOp.before)
           /\ lastOp.ret = "False"
           /\ ~lastOp.changed
           /\ requests[lastOp.test] = lastOp.before

\* advance_step was called on a Rejected request that is not yet at step 4
C6_Witness ==
    /\ lastOp.op = "advance_step"
    /\ lastOp.before.status = "Rejected"
    /\ lastOp.before.current_step = 2
    /\ lastOp.ret = "False"

\* C7: for every status other than Rejected and every current_step s in 1..3,
\* advance_step returns True and leaves current_step = s + 1, with status
\* Completed when s + 1 = 4 and In-Progress otherwise.
C7_AdvanceTransition ==
    (/\ lastOp.op = "advance_step"
     /\ lastOp.before.status # "Rejected"
     /\ lastOp.before.current_step \in 1..3)
        => /\ lastOp.ret = "True"
           /\ requests[lastOp.test].current_step = lastOp.before.current_step + 1
           /\ requests[lastOp.test].status =
                IF lastOp.before.current_step + 1 = 4 THEN "Completed" ELSE "In-Progress"

\* advance_step was called on an Approved request at step 3
C7_Witness ==
    /\ lastOp.op = "advance_step"
    /\ lastOp.before.status = "Approved"
    /\ lastOp.before.current_step = 3
    /\ requests[lastOp.test].status = "Completed"

\* the progress table as the specification states it
StatedProgress(status, step) ==
    IF status = "Approved" \/ (status = "Completed" /\ step = 4) THEN 100
    ELSE IF status = "Submitted for Review" THEN 75
    ELSE IF step = 4 THEN 100
    ELSE CASE step = 1 -> 25 [] step = 2 -> 50 [] step = 3 -> 75

\* C8: the progress percentage is 100 when status is Approved (any step) or
\* Completed at step 4, 75 when status is Submitted for Review (also at step
\* 4), 100 for any other status at step 4, and otherwise 25, 50, 75 for steps
\* 1, 2, 3.
C8_ProgressTable ==
    lastOp.op = "get_progress_percentage"
        => lastOp.pct = StatedProgress(lastOp.before.status, lastOp.before.current_step)

\* the progress of a request Submitted for Review at step 4 was computed
C8_Witness ==
    /\ lastOp.op = "get_progress_percentage"
    /\ lastOp.before.status = "Submitted for Review"
    /\ lastOp.before.current_step = 4
    /\ lastOp.pct = 75

\* C9: a step that changes a TestRequest's status to Approved starts from a
\* state in which its status is Submitted for Review.
C9_ApprovalFollowsSubmission ==
    [][\A t \in Stored :
          (requests'[t].status = "Approved" /\ requests[t].status # "Approved")
              => requests[t].status = "Submitted for Review"]_vars

\* the last operation was a pipeline_step request by a controller who is not
\* the controller_user of the stored request
ForeignPipelineStep ==
    /\ lastOp.op = "pipeline_step"
    /\ lastOp.test \in Stored
    /\ is_controller(lastOp.user)
    /\ requests[lastOp.test].controller_user # lastOp.user

\* the last operation was a detail-view POST on a stored request by a user
\* who is not an admin
NonAdminDetailPost ==
    /\ lastOp.op = "detail_post"
    /\ lastOp.test \in Stored
    /\ ~is_admin(lastOp.user)

\* C10 as stated: a pipeline_step request by a controller who is not the
\* request's controller_user, and a detail-view POST by a user who is not an
\* admin, are answered with a permission error and change no TestRequest and
\* no TestResult.
C10_UnauthorizedIsPermissionError ==
    (ForeignPipelineStep \/ NonAdminDetailPost)
        => (lastOp.resp = "permission_error" /\ ~lastOp.changed)

\* C10 as amended: the pipeline_step request is answered with a permission
\* error; the detail-view POST is answered with a permission error when the
\* user is the request's controller_user and with 404 otherwise; in every
\* case no TestRequest and no TestResult changes.
C10_UnauthorizedChangesNothing ==
    /\ ForeignPipelineStep => (lastOp.resp = "permission_error" /\ ~lastOp.changed)
    /\ NonAdminDetailPost =>
         /\ ~lastOp.changed
         /\ lastOp.resp = IF requests[lastOp.test].controller_user = lastOp.user
                          THEN "permission_error" ELSE "404"

\* a controller was refused a pipeline_step on another controller's request
\* that has a stored result
C10_Witness ==
    /\ ForeignPipelineStep
    /\ lastOp.resp = "permission_error"
    /\ results[lastOp.test, "Moisture"] # NoRow

-----------------------------------------------------------------------------
(* Properties of a step-3 submission *)

\* the verdict of validating the stored value of (t, p) against the active
\* specification: unknown without one, and when validating throws
Verdict(t, p) ==
    LET sp == ActiveSpecification(specs, requests[t].product, p)
        v == validate_value(sp, data_type(p), results[t, p].actual_value)
    IN  IF sp = NoRow THEN "None"
        ELSE IF v.raised # "None" THEN "None"
        ELSE BoolStr(v.is_valid)

\* the last operation was a step-3 submission that was committed
Step3Committed == lastOp.op = "pipeline_step" /\ lastOp.resp = "redirect_step4"

\* C11: after every committed step-3 submission, each TestResult it created
\* or updated has a stored pass_fail_status equal to the verdict of validating
\* its stored actual_value against the then-active specification (unknown when
\* there is none), also when it replaced the value of a result whose status
\* was already True or False.
C11_StatusFollowsValue ==
    Step3Committed =>
        \A p \in DOMAIN lastOp.posted :
            /\ results[lastOp.test, p] # NoRow
            /\ results[lastOp.test, p].actual_value = lastOp.posted[p]
            /\ results[lastOp.test, p].pass_fail_status = Verdict(lastOp.test, p)

\* a committed submission replaced the value of a result whose status was
\* True by a value that fails
C11_Witness ==
    /\ Step3Committed
    /\ \E p \in DOMAIN lastOp.posted :
          /\ lastOp.before[p] # NoRow
          /\ lastOp.before[p].pass_fail_status = "True"
          /\ lastOp.before[p].actual_value # lastOp.posted[p]
          /\ results[lastOp.test, p].pass_fail_status = "False"

\* C13: a step-3 submission that carries a value not parsable as a number for
\* a Numeric parameter is not accepted, creates or changes no TestResult row
\* and does not change the TestRequest's current_step or status.
C13_MalformedNumericMutatesNothing ==
    (/\ lastOp.op = "pipeline_step"
     /\ \E p \in DOMAIN lastOp.posted :
           data_type(p) = "Numeric" /\ Decimal(lastOp.posted[p]).raised # "None")
        => (lastOp.resp # "redirect_step4" /\ ~lastOp.changed)

-----------------------------------------------------------------------------
(* Properties of validate_value *)

\* validate_value was called on a specification of data type dtype
Validating(dtype) == lastOp.op = "validate_value" /\ data_type(lastOp.param) = dtype

\* C12: for a Numeric specification, validate_value on a value that does not
\* parse as a decimal returns (False, an 'invalid numeric value' message) and
\* does not raise.
C12_ParseFailureIsFailedValidation ==
    (Validating("Numeric") /\ Decimal(lastOp.value).raised # "None")
        => /\ lastOp.raised = "None"
           /\ lastOp.ret = "False"
           /\ lastOp.message = "Invalid numeric value"

\* decimal a is at least decimal b (never so for the decimal NaN)
AtLeast(a, b) == a # NaN /\ b # NaN /\ a.num * Pow10(b.exp) >= b.num * Pow10(a.exp)

\* a Numeric specification with min 10 and max 12 was asked about value
BoundedAsked(value) ==
    /\ lastOp.before.min_value = Dec(10, 0)
    /\ lastOp.before.max_value = Dec(12, 0)
    /\ lastOp.value = value

\* C14: for a Numeric specification and a parsable value v, validate_value
\* passes exactly when (min_value is absent or v >= min_value) and (max_value
\* is absent or v <= max_value); with bounds 10 and 12, 9 fails, 10 passes, 12
\* passes and 13 fails; a failure carries a message.
C14_InclusiveOptionalBounds ==
    (Validating("Numeric") /\ Decimal(lastOp.value).raised = "None")
        => LET v == Decimal(lastOp.value).value
               lo == lastOp.before.min_value
               hi == lastOp.before.max_value
           IN  /\ (lastOp.ret = "True") <=>
                     ((lo = None \/ AtLeast(v, lo)) /\ (hi = None \/ AtLeast(hi, v)))
               /\ v # NaN => lastOp.raised = "None"
               /\ lastOp.ret = "False" => lastOp.message # "None"
               /\ BoundedAsked(V_9) => lastOp.ret = "False"
               /\ BoundedAsked(V_10) => lastOp.ret = "True"
               /\ BoundedAsked(V_12) => lastOp.ret = "True"
               /\ BoundedAsked(V_13) => lastOp.ret = "False"

\* the value equal to the minimum was validated against both bounds
C14_Witness ==
    /\ Validating("Numeric")
    /\ BoundedAsked(V_10)
    /\ lastOp.ret = "True"

\* a specification with standard value Negative was asked about value
NegativeAsked(value) ==
    lastOp.before.standard_text_value = NEGATIVE /\ lastOp.value = value

\* C15: for a Text specification with a non-empty standard_text_value,
\* validate_value passes exactly when the actual value equals the standard
\* value after trimming whitespace and ignoring case on both sides (standard
\* "Negative": "negative" and " Negative " pass, "Positive" fails); with no
\* standard value every actual value passes.
C15_TextComparison ==
    Validating("Text")
        => /\ lastOp.raised = "None"
           /\ lastOp.before.standard_text_value = <<>> => lastOp.ret = "True"
           /\ lastOp.before.standard_text_value # <<>> =>
                ((lastOp.ret = "True") <=>
                    (lower(strip(lastOp.value))
                        = lower(strip(lastOp.before.standard_text_value))))
           /\ NegativeAsked(V_negative) => lastOp.ret = "True"
           /\ NegativeAsked(V_Negative_padded) => lastOp.ret = "True"
           /\ NegativeAsked(POSITIVE) => lastOp.ret = "False"

\* " Negative " was validated against the standard text Negative
C15_Witness ==
    /\ Validating("Text")
    /\ NegativeAsked(V_Negative_padded)
    /\ lastOp.ret = "True"

\* the value, trimmed and lower-cased, is a truthy token
Truthy(value) == lower(strip(value)) \in TruthyTokens

\* C16: for a Boolean specification with a non-empty standard value,
\* validate_value passes exactly when the standard value and the actual value,
\* each trimmed and lower-cased, are both inside or both outside the
\* truthy-token set (standard "Negative": actual "Negative" passes, actual
\* "Pass" fails); with no standard value every actual value passes.
C16_BooleanComparison ==
    Validating("Boolean")
        => /\ lastOp.raised = "None"
           /\ lastOp.before.standard_text_value = <<>> => lastOp.ret = "True"
           /\ lastOp.before.standard_text_value # <<>> =>
                ((lastOp.ret = "True") <=>
                    (Truthy(lastOp.value) <=> Truthy(lastOp.before.standard_text_value)))
           /\ NegativeAsked(NEGATIVE) => lastOp.ret = "True"
           /\ NegativeAsked(PASS) => lastOp.ret = "False"
           /\ (lastOp.before.standard_text_value = PASS /\ lastOp.value = YES)
                => lastOp.ret = "True"

\* Pass was validated against the Boolean standard Negative
C16_Witness ==
    /\ Validating("Boolean")
    /\ NegativeAsked(PASS)
    /\ lastOp.ret = "False"

-----------------------------------------------------------------------------
(* Properties of calculate_pass_fail *)

\* the outcome c of a call on the stored result (t, p) equals what the last
\* call answered and leaves the stored status as it is
SameAsLastCall(c, t, p) ==
    /\ c.raised = lastOp.raised
    /\ (IF c.raised # "None" THEN "None" ELSE c.ret) = lastOp.ret
    /\ c.db.pass_fail_status = results[t, p].pass_fail_status

\* C17: invoking calculate_pass_fail a second time, with actual_value and the
\* specifications unchanged, yields the same return value (or the same
\* exception) and the same stored pass_fail_status as the first invocation,
\* whether the specification passes, fails, is absent or the evaluation faults.
C17_Idempotent ==
    lastOp.op = "calculate_pass_fail" =>
        SameAsLastCall(
            calculate_pass_fail(results[lastOp.test, lastOp.param],
                                results[lastOp.test, lastOp.param],
                                ActiveSpecification(specs, requests[lastOp.test].product,
                                                    lastOp.param),
                                data_type(lastOp.param), 1),
            lastOp.test, lastOp.param)

\* a call turned a stored status True into False
C17_Witness ==
    /\ lastOp.op = "calculate_pass_fail"
    /\ lastOp.before.pass_fail_status = "True"
    /\ lastOp.ret = "False"
    /\ results[lastOp.test, lastOp.param].pass_fail_status = "False"

-----------------------------------------------------------------------------
(* Properties of handlers running at the same time *)

\* C18: at most one TestResult exists per (TestRequest, TestParameter) pair in
\* every reachable state: repeated or concurrent step-3 submissions for the
\* same request and parameter never produce a second row; a later submission
\* updates the existing row's actual_value and tested_by.
C18_OneResultPerPair ==
    /\ \A k \in Tests \X Parameters :
          /\ inserted[k] <= 1
          /\ results[k] # NoRow <=> inserted[k] = 1
    /\ Step3Committed =>
          \A p \in DOMAIN lastOp.posted :
              /\ results[lastOp.test, p].actual_value = lastOp.posted[p]
              /\ results[lastOp.test, p].tested_by = lastOp.user

\* a submission updated a row that another user's submission had inserted
\* after this one had looked for it
C18_Witness ==
    /\ Step3Committed
    /\ \E p \in DOMAIN lastOp.posted :
          /\ p \notin lastOp.seen
          /\ lastOp.before[p] # NoRow
          /\ lastOp.before[p].tested_by # lastOp.user
          /\ lastOp.before[p].actual_value # lastOp.posted[p]
          /\ results[lastOp.test, p].tested_by = lastOp.user
          /\ inserted[lastOp.test, p] = 1

\* the last operation was a step-3 submission that processed values
Step3Processed == lastOp.op = "pipeline_step" /\ DOMAIN lastOp.posted # {}

\* C19: a step-3 submission is all-or-nothing: when it succeeds, the rows of
\* all its parameters and current_step = 3 are stored together; when it fails
\* after some rows were written, none of its rows and no change of the
\* TestRequest remain.
C19_AllOrNothing ==
    Step3Processed =>
        IF lastOp.resp = "redirect_step4"
        THEN /\ requests[lastOp.test].current_step = 3
             /\ \A p \in DOMAIN lastOp.posted :
                   /\ results[lastOp.test, p] # NoRow
                   /\ results[lastOp.test, p].actual_value = lastOp.posted[p]
        ELSE /\ ~lastOp.changed
             /\ \A p \in DOMAIN lastOp.posted : results[lastOp.test, p] = lastOp.before[p]

\* a submission failed at Salmonella after the Moisture row had been written:
\* no Moisture row is left
C19_Witness ==
    /\ Step3Processed
    /\ lastOp.resp = "server_error"
    /\ DOMAIN lastOp.posted = {"Moisture", "Salmonella"}
    /\ ActiveSpecification(specs, requests[lastOp.test].product, "Moisture") # NoRow
    /\ ActiveSpecification(specs, requests[lastOp.test].product, "Salmonella") = NoRow
    /\ results[lastOp.test, "Moisture"] = NoRow

\* the last operation was a handler that saved the TestRequest
SavedRequest == lastOp.instance # NoRow

\* C20: when handlers act on the same TestRequest and each loaded it before
\* the other saved, each completes without error and the stored status and
\* current_step after a save are exactly those of the instance that was
\* saved last: the earlier handler's change is overwritten.
C20_LastWriteWins ==
    SavedRequest =>
        /\ lastOp.raised = "None"
        /\ lastOp.resp \in {"redirect_step3", "redirect_step4", "redirect_detail",
                             "approved", "rejected"}
        /\ requests[lastOp.test].status = lastOp.instance.status
        /\ requests[lastOp.test].current_step = lastOp.instance.current_step

\* the controller's submit, loaded before the admin approved, overwrote the
\* approval
C20_Witness ==
    /\ SavedRequest
    /\ lastOp.op = "pipeline_step"
    /\ lastOp.stored.status = "Approved"
    /\ requests[lastOp.test].status = "Submitted for Review"

-----------------------------------------------------------------------------
(* The pipeline from registration to approval *)

\* the Moisture specification of the seeded product: between 10 and 12
MoistureSpecification == SpecRow(TRUE, Dec(10, 0), Dec(12, 0), <<>>)

\* C21: the end-to-end scenario runs as stated: registering yields (Pending,
\* step 1); selecting parameters yields (In-Progress, step 2); entering 11.0
\* for a Numeric parameter whose specification has min 10 and max 12 stores
\* pass_fail_status true; submitting yields (Submitted for Review, step 4)
\* with progress 75; the admin's approval yields Approved with progress 100.
C21_ScenarioObservations ==
    /\ (lastOp.op = "pipeline_start" /\ lastOp.resp = "redirect_step2") =>
            /\ requests[lastOp.test].status = "Pending"
            /\ requests[lastOp.test].current_step = 1
    /\ (lastOp.op = "pipeline_step" /\ lastOp.resp = "redirect_step3") =>
            /\ requests[lastOp.test].status = "In-Progress"
            /\ requests[lastOp.test].current_step = 2
    /\ ( /\ Step3Committed
         /\ "Moisture" \in DOMAIN lastOp.posted
         /\ lastOp.posted["Moisture"] = V_11_0
         /\ ActiveSpecification(specs, requests[lastOp.test].product, "Moisture")
                = MoistureSpecification ) =>
            results[lastOp.test, "Moisture"].pass_fail_status = "True"
    /\ ( /\ lastOp.op = "pipeline_step"
         /\ lastOp.resp = "redirect_detail"
         /\ requests[lastOp.test].status = "Submitted for Review" ) =>
            /\ requests[lastOp.test].current_step = 4
            /\ get_progress_percentage(requests[lastOp.test]) = 75
    /\ (lastOp.op = "detail_post" /\ lastOp.resp = "approved") =>
            /\ requests[lastOp.test].status = "Approved"
            /\ get_progress_percentage(requests[lastOp.test]) = 100

\* the end of the scenario: the admin approved the request a controller
\* registered, whose parameters were selected, whose Moisture value 11.0 was
\* stored as passed, and which was submitted at step 4
C21_Witness ==
    /\ lastOp.op = "detail_post"
    /\ lastOp.resp = "approved"
    /\ lastOp.user = "admin"
    /\ requests[lastOp.test] = RequestRow("Approved", 4, "ctrl1", "FG001")
    /\ session["ctrl1"][lastOp.test] = {"Moisture"}
    /\ results[lastOp.test, "Moisture"] = ResultRow(V_11_0, "True", "ctrl1")
    /\ get_progress_percentage(requests[lastOp.test]) = 100

\* C22: every TestRequest created by pipeline_start starts with status
\* Pending, current_step 1 and controller_user equal to the acting user,
\* whatever the submitted form contains; a POST whose form is invalid creates
\* no TestRequest.
C22_RegistrationState ==
    lastOp.op = "pipeline_start" =>
        IF lastOp.resp = "redirect_step2"
        THEN /\ requests[lastOp.test] # NoRow
             /\ requests[lastOp.test].status = "Pending"
             /\ requests[lastOp.test].current_step = 1
             /\ requests[lastOp.test].controller_user = lastOp.user
        ELSE /\ ~lastOp.changed
             /\ lastOp.test = 0

\* a controller registered a request with a POST that also carried the status
\* Approved, step 4 and the admin as controller
C22_Witness ==
    /\ lastOp.op = "pipeline_start"
    /\ lastOp.resp = "redirect_step2"
    /\ lastOp.user = "ctrl2"
    /\ lastOp.posted = [status |-> "Approved", current_step |-> 4, controller_user |-> "admin"]
    /\ requests[lastOp.test] = RequestRow("Pending", 1, "ctrl2", "FG001")

-----------------------------------------------------------------------------
(* Properties of TestResult.save *)

\* C23: saving or evaluating a TestResult always terminates: save triggers
\* at most one calculate_pass_fail, whose own save triggers no further
\* evaluation, so no call nests without end.
C23_SaveTerminates ==
    lastOp.op \in {"save", "calculate_pass_fail"} => lastOp.raised # "RecursionError"

\* the row (t, p) as it was before the last call satisfies the condition
\* under which save evaluates
SaveEvaluates == lastOp.before.pass_fail_status = "None" /\ lastOp.before.actual_value # <<>>

\* C25: TestResult.save runs calculate_pass_fail exactly when
\* pass_fail_status is unset and actual_value is non-empty: then the call ends
\* as the evaluation does, with the verdict stored or with the evaluation's
\* exception; a save whose status is True or False, or whose value is empty,
\* stores the row without evaluating, raises nothing and leaves the status as
\* it was.
C25_SaveEvaluatesWhenUnset ==
    lastOp.op = "save" =>
        IF SaveEvaluates
        THEN \/ lastOp.raised # "None"
             \/ /\ Verdict(lastOp.test, lastOp.param) \in {"True", "False"}
                /\ results[lastOp.test, lastOp.param].pass_fail_status
                      = Verdict(lastOp.test, lastOp.param)
        ELSE /\ lastOp.raised = "None"
             /\ results[lastOp.test, lastOp.param] = lastOp.before

\* a save of a row whose status was unset stored the verdict of its value
C25_Witness ==
    /\ lastOp.op = "save"
    /\ SaveEvaluates
    /\ lastOp.raised = "None"
    /\ results[lastOp.test, lastOp.param].pass_fail_status = "False"

-----------------------------------------------------------------------------
(* The order of the pipeline's steps *)

\* C24: the steps are taken in order: a request's status becomes Submitted
\* for Review only when parameter selection (step 2) and then result entry
\* (step 3) have been performed on it, so a step-4 submit on a request that
\* has not completed step 3 does not change it.
C24_SubmitFollowsStep3 ==
    [][\A t \in Stored :
          ( /\ requests'[t].status = "Submitted for Review"
            /\ requests[t].status # "Submitted for Review" )
              => /\ \E u \in Users : session[u][t] # {}
                 /\ requests[t].current_step >= 3]_vars

-----------------------------------------------------------------------------
(* Specifications and stored results *)

\* C26: creating, changing or deactivating a ProductSpecification leaves the
\* stored pass_fail_status of every existing TestResult unchanged; only a
\* later calculate_pass_fail call uses the new specification: a call that
\* returns stores the verdict under the specifications as they are then.
C26_SpecificationChangeKeepsResults ==
    /\ [][specs' # specs => results' = results]_vars
    /\ []( (lastOp.op = "calculate_pass_fail" /\ lastOp.raised = "None") =>
              results[lastOp.test, lastOp.param].pass_fail_status
                  = Verdict(lastOp.test, lastOp.param) )

\* an update of the specification left a stored status True that the new
\* bounds no longer give
C26_Witness ==
    /\ lastOp.op = "specification_update"
    /\ specs["FG001", "Moisture"] = SpecRow(TRUE, Dec(12, 0), Dec(12, 0), <<>>)
    /\ \E t \in Stored :
          /\ results[t, "Moisture"] # NoRow
          /\ results[t, "Moisture"].actual_value = V_11_0
          /\ results[t, "Moisture"].pass_fail_status = "True"
          /\ Verdict(t, "Moisture") = "False"

-----------------------------------------------------------------------------
(* Selection and result entry *)

-----------------------------------------------------------------------------
(* The step and the status of a request *)

\* C28: current_step never decreases on any TestRequest, under any sequence
\* of pipeline_step POSTs (steps 2, 3 and 4 in any order), advance_step calls
\* and detail-view POSTs.
C28_StepNeverDecreases ==
    [][\A t \in Stored : requests'[t].current_step >= requests[t].current_step]_vars

\* C29: in every state reachable from a registered request through
\* pipeline_step, advance_step and detail-view POSTs, status Pending occurs
\* only with current_step 1 and status In-Progress only with current_step 2
\* or 3.
C29_EarlyStatusSteps ==
    \A t \in Stored :
        /\ requests[t].status = "Pending" => requests[t].current_step = 1
        /\ requests[t].status = "In-Progress" => requests[t].current_step \in {2, 3}

\* advance_step took a registered request from Pending at step 1 to
\* In-Progress at step 2
C29_Witness ==
    /\ lastOp.op = "advance_step"
    /\ lastOp.ret = "True"
    /\ lastOp.before.status = "Pending"
    /\ lastOp.before.current_step = 1
    /\ requests[lastOp.test].status = "In-Progress"
    /\ requests[lastOp.test].current_step = 2

\* the number of calls looked at after advance_step has stopped advancing
LaterCalls == 2

RECURSIVE AdvancedTimes(_, _)
\* the row after n consecutive advance_step calls on the row r
AdvancedTimes(r, n) ==
    IF n = 0 THEN r ELSE AdvancedTimes(advance_step(r).row, n - 1)

RECURSIVE AdvanceReturns(_, _)
\* the values returned by n consecutive advance_step calls on the row r
AdvanceReturns(r, n) ==
    IF n = 0 THEN <<>>
    ELSE <<advance_step(r).ret>> \o AdvanceReturns(advance_step(r).row, n - 1)

\* C30: repeated advance_step converges: from a request that is not Rejected
\* at step s in 1..3, exactly 4 - s consecutive calls return True and end in
\* (Completed, step 4), and every call after that returns False and changes
\* nothing; a successful advance_step never leaves the status Pending,
\* Submitted for Review, Approved or Rejected.
C30_AdvanceConverges ==
    /\ \A t \in Stored :
          (requests[t].status # "Rejected" /\ requests[t].current_step \in 1..3) =>
              /\ AdvanceReturns(requests[t], 4 - requests[t].current_step + LaterCalls)
                    = [i \in 1..(4 - requests[t].current_step + LaterCalls) |->
                          i <= 4 - requests[t].current_step]
              /\ AdvancedTimes(requests[t], 4 - requests[t].current_step)
                    = [requests[t] EXCEPT !.status = "Completed", !.current_step = 4]
              /\ AdvancedTimes(requests[t], 4 - requests[t].current_step + LaterCalls)
                    = AdvancedTimes(requests[t], 4 - requests[t].current_step)
    /\ (lastOp.op = "advance_step" /\ lastOp.ret = "True") =>
          requests[lastOp.test].status
              \notin {"Pending", "Submitted for Review", "Approved", "Rejected"}

\* the one call left to a request under review at step 3 returned True and
\* ended in (Completed, step 4)
C30_Witness ==
    /\ lastOp.op = "advance_step"
    /\ lastOp.ret = "True"
    /\ lastOp.before.status = "Submitted for Review"
    /\ lastOp.before.current_step = 3
    /\ requests[lastOp.test].status = "Completed"
    /\ requests[lastOp.test].current_step = 4
    /\ ~advance_step(requests[lastOp.test]).ret

====
